---- MODULE Spec2Model ----
(***************************************************************************)
(* Model of convert_folium_to_leaflet.py: convert_all_layers() runs eight  *)
(* conversion steps, each inside its own try/except, and then writes       *)
(* map_config.json.                                                        *)
(*                                                                         *)
(* Input files are tables (a set of columns and a sequence of rows); the   *)
(* output files are what the step serialises.  Cell values are tagged      *)
(* records so that NaN, None, integers, floats and strings stay distinct.  *)
(* Floats are held in tenths (FloatV(25) is 2.5).  The libraries' calls    *)
(* (read_file, dissolve, to_crs, simplify, centroid, dropna, nlargest,     *)
(* json.dump) are modelled by what they return for the table they get.     *)
(***************************************************************************)
EXTENDS Integers, Sequences, FiniteSets, TLC

VARIABLES
    inputs,        \* the seven input files, by step
    files,         \* the eight output files
    before,        \* the output files as they were when the current run began
    output_data,   \* the in-memory configuration dictionary
    done,          \* the steps executed so far in the current run
    errors,        \* the steps whose except clause ran in the current run
    pc,            \* "run" inside convert_all_layers, "finished" after it
    run,           \* number of the current invocation
    configWrites   \* writes of map_config.json in the current run

vars == <<inputs, files, before, output_data, done, errors, pc, run, configWrites>>

(***************************************************************************)
(* Bounds of the model.                                                    *)
(***************************************************************************)
MaxRows == 2
MaxBlocks == 2
MaxRuns == 2

(***************************************************************************)
(* Cell values.                                                            *)
(***************************************************************************)
NaN == [kind |-> "nan", n |-> 0, s |-> ""]
None == [kind |-> "none", n |-> 0, s |-> ""]
IntV(x) == [kind |-> "int", n |-> x, s |-> ""]
FloatV(t) == [kind |-> "float", n |-> t, s |-> ""]
StrV(t) == [kind |-> "str", n |-> 0, s |-> t]

\* pd.notna / the test dropna applies to a cell
notna(v) == v.kind \notin {"nan", "none"}

\* The strings int() parses, with their values.
IntLiterals == {<<"12", 12>>}

\* int(v): (TRUE, value) or, when int() raises, (FALSE, 0).
\* A float is truncated toward zero; a string must be an integer literal.
PyInt(v) ==
    CASE v.kind = "int" -> <<TRUE, v.n>>
      [] v.kind = "float" ->
            <<TRUE, IF v.n >= 0 THEN v.n \div 10 ELSE -((-v.n) \div 10)>>
      [] v.kind = "str" ->
            IF \E p \in IntLiterals : p[1] = v.s
            THEN <<TRUE, (CHOOSE p \in IntLiterals : p[1] = v.s)[2]>>
            ELSE <<FALSE, 0>>
      [] OTHER -> <<FALSE, 0>>

(***************************************************************************)
(* Geometries: a point (x, y), a polygon with its centroid (cx, cy), a     *)
(* line, or a missing geometry; tol is the tolerance it was simplified     *)
(* with, in units of 0.0001 (0: not simplified).                           *)
(***************************************************************************)
Geom(type, x, y, cx, cy) ==
    [type |-> type, x |-> x, y |-> y, cx |-> cx, cy |-> cy, tol |-> 0]
NoGeom == Geom("None", 0, 0, 0, 0)

\* GeoSeries.simplify(tolerance, preserve_topology=True)
simplify(g, tolerance) ==
    IF g.type = "None" THEN g ELSE [g EXCEPT !.tol = tolerance]

\* GeoSeries.centroid
centroid(g) == [g EXCEPT !.type = "Point", !.x = g.cx, !.y = g.cy]

(***************************************************************************)
(* Files.  An input table declares a CRS (crs, "" when the file has none)  *)
(* and its coordinates are in the system frame.                            *)
(***************************************************************************)
Missing == [exists |-> FALSE, crs |-> "", frame |-> "", columns |-> {}, rows |-> <<>>]
Table(cols, rows) ==
    [exists |-> TRUE, crs |-> "", frame |-> "", columns |-> cols, rows |-> rows]
GeoTable(crs, frame, cols, rows) ==
    [exists |-> TRUE, crs |-> crs, frame |-> frame, columns |-> cols, rows |-> rows]

Absent == [exists |-> FALSE, crs |-> "", frame |-> "", body |-> <<>>]
JsonFile(body) == [exists |-> TRUE, crs |-> "", frame |-> "", body |-> body]
GeoJsonFile(crs, frame, body) ==
    [exists |-> TRUE, crs |-> crs, frame |-> frame, body |-> body]

\* What a try block did: raised into its except clause, or wrote out.
Raised == [raised |-> TRUE, written |-> FALSE, out |-> Absent]
Skipped == [raised |-> FALSE, written |-> FALSE, out |-> Absent]
Wrote(f) == [raised |-> FALSE, written |-> TRUE, out |-> f]

\* f o s for a sequence s
Map(f(_), s) == [i \in 1..Len(s) |-> f(s[i])]

(***************************************************************************)
(* output_data                                                             *)
(***************************************************************************)
CONFIG ==
    [config |->
        [nm_center |-> <<"34.5199", "-105.8701">>,
         default_zoom |-> 6,
         distribution_centers |->
            <<[lat |-> "39.09820436455732", lon |-> "-104.78195183701729",
               name |-> "Denver DC"],
              [lat |-> "33.54855180837709", lon |-> "-112.00158827551459",
               name |-> "Phoenix DC"]>>,
         \* 300 * 1.609, in thousandths
         dc_radius_km |-> 300 * 1609]]

(***************************************************************************)
(* 1. STATE BOUNDARY.  A tract's geometry is the set of regions it covers; *)
(* dissolve(by=None) unions them into one row (no row for an empty frame). *)
(***************************************************************************)
IsNM(r) == r.STATEFP = "35"

RECURSIVE UnionAll(_)
UnionAll(rows) ==
    IF rows = <<>> THEN {} ELSE Head(rows).geometry \cup UnionAll(Tail(rows))

dissolve(rows) ==
    IF rows = <<>> THEN <<>>
    ELSE <<[STATEFP |-> Head(rows).STATEFP, geometry |-> UnionAll(rows)]>>

\* EnsureCRS with the reprojection left out.
EnsureCRSNever(t) == t

\* "if crs and crs.to_string() != 'EPSG:4326': to_crs(epsg=4326)"
EnsureCRS(t) ==
    IF t.crs # "" /\ t.crs # "EPSG:4326"
    THEN [t EXCEPT !.crs = "EPSG:4326", !.frame = "EPSG:4326"]
    ELSE t

ConvertBoundary(t) ==
    IF ~t.exists \/ "STATEFP" \notin t.columns THEN Raised
    ELSE LET nm_boundary == SelectSeq(t.rows, IsNM)
             nm_boundary_dissolved ==
                 EnsureCRS([t EXCEPT !.rows = dissolve(nm_boundary)])
         IN  Wrote(GeoJsonFile(nm_boundary_dissolved.crs,
                               nm_boundary_dissolved.frame,
                               nm_boundary_dissolved.rows))

(***************************************************************************)
(* 2. HIGHWAY/STREET NETWORK                                               *)
(***************************************************************************)
HighwayFeature(r) == [id |-> r.id, geometry |-> simplify(r.geometry, 1)]

ConvertHighways(t) ==
    IF ~t.exists \/ ~({"id", "geometry"} \subseteq t.columns) THEN Raised
    ELSE Wrote(GeoJsonFile(t.crs, t.frame, Map(HighwayFeature, t.rows)))

(***************************************************************************)
(* 3. FAST FOOD LOCATIONS                                                  *)
(***************************************************************************)
\* FastFoodRecord testing the rating's truth value instead of pd.notna.
FastFoodRecordTruthy(row) ==
    [lat |-> row.Latitude,
     lon |-> row.Longitude,
     name |-> row.Name,
     rating |-> IF notna(row.Rating) /\ row.Rating.n # 0 THEN row.Rating ELSE None]

FastFoodRecord(row) ==
    [lat |-> row.Latitude,
     lon |-> row.Longitude,
     name |-> row.Name,
     rating |-> IF notna(row.Rating) THEN row.Rating ELSE None]

ConvertFastFood(t) ==
    IF ~t.exists \/ ~({"Name", "Latitude", "Longitude", "Rating"} \subseteq t.columns)
    THEN Raised
    ELSE Wrote(JsonFile(Map(FastFoodRecord, t.rows)))

(***************************************************************************)
(* 4. UNIVERSITIES/MALLS/POIS                                              *)
(***************************************************************************)
\* poi_gdf.loc[is_areal, 'geometry'] = ...centroid
ToCentroid(r) ==
    IF r.geometry.type \in {"Polygon", "MultiPolygon"}
    THEN [r EXCEPT !.geometry = centroid(r.geometry)]
    ELSE r

\* row.geometry.y and row.geometry.x exist for a point only
HasXY(r) == r.geometry.type = "Point"

PoiRecord(row) ==
    [lat |-> row.geometry.y, lon |-> row.geometry.x, name |-> row.name]

\* ConvertPois opening poi_locations.json before the rows are converted.
ConvertPoisOpenFirst(t) ==
    IF ~t.exists \/ ~({"name", "geometry"} \subseteq t.columns) THEN Raised
    ELSE LET poi_gdf == Map(ToCentroid, t.rows)
         IN  IF \E i \in 1..Len(poi_gdf) : ~HasXY(poi_gdf[i])
             THEN [raised |-> TRUE, written |-> TRUE, out |-> JsonFile(<<>>)]
             ELSE Wrote(JsonFile(Map(PoiRecord, poi_gdf)))

\* ConvertPois skipping the rows that have no point, row by row.
ConvertPoisSkipRows(t) ==
    IF ~t.exists \/ ~({"name", "geometry"} \subseteq t.columns) THEN Raised
    ELSE Wrote(JsonFile(Map(PoiRecord, SelectSeq(Map(ToCentroid, t.rows), HasXY))))

ConvertPois(t) ==
    IF ~t.exists \/ ~({"name", "geometry"} \subseteq t.columns) THEN Raised
    ELSE LET poi_gdf == Map(ToCentroid, t.rows)
         IN  IF \E i \in 1..Len(poi_gdf) : ~HasXY(poi_gdf[i]) THEN Raised
             ELSE Wrote(JsonFile(Map(PoiRecord, poi_gdf)))

(***************************************************************************)
(* 5. TRAFFIC COUNT STATIONS.  The sheet's columns are its positions; ten  *)
(* names are assigned to them.                                             *)
(***************************************************************************)
StationColumns ==
    <<"Loc_ID", "County", "Functional_Class", "Rural_Urban", "On", "LRS_Loc_Pt",
      "Latitude", "Longitude", "TrafficCount", "Latest_Date">>

\* dropna(subset=['Latitude', 'Longitude', 'TrafficCount'])
Complete(r) == notna(r.Latitude) /\ notna(r.Longitude) /\ notna(r.TrafficCount)

RECURSIVE dropna(_)
dropna(rows) ==
    IF rows = <<>> THEN <<>>
    ELSE IF Complete(Head(rows)) THEN <<Head(rows)>> \o dropna(Tail(rows))
    ELSE dropna(Tail(rows))

\* StationRecord without the int() cast.
StationRecordNoCast(row) ==
    [lat |-> row.Latitude,
     lon |-> row.Longitude,
     count |-> row.TrafficCount,
     loc_id |-> row.Loc_ID]

StationRecord(row) ==
    [lat |-> row.Latitude,
     lon |-> row.Longitude,
     count |-> IntV(PyInt(row.TrafficCount)[2]),
     loc_id |-> row.Loc_ID]

ConvertStations(t) ==
    IF ~t.exists \/ Cardinality(t.columns) # Len(StationColumns) THEN Raised
    ELSE LET traffic_df == dropna(t.rows)
         IN  IF \E i \in 1..Len(traffic_df) : ~PyInt(traffic_df[i].TrafficCount)[1]
             THEN Raised
             ELSE Wrote(JsonFile(Map(StationRecord, traffic_df)))

(***************************************************************************)
(* 6. TRAFFIC VOLUME ON ROADS.  The shapefile is held run-length encoded:  *)
(* a row stands for n consecutive features with the same mean_traff.       *)
(***************************************************************************)
RoadLimit == 10000

RECURSIVE Count(_)
Count(rows) == IF rows = <<>> THEN 0 ELSE Head(rows).n + Count(Tail(rows))

\* a value in tenths
Tenths(v) == IF v.kind = "int" THEN 10 * v.n ELSE v.n

\* The order of nlargest: larger values first, NaN last.
Above(a, b) ==
    /\ notna(a.mean_traffic)
    /\ ~notna(b.mean_traffic) \/ Tenths(a.mean_traffic) > Tenths(b.mean_traffic)

RECURSIVE Insert(_, _)
Insert(x, s) ==
    IF s = <<>> THEN <<x>>
    ELSE IF Above(x, Head(s)) THEN <<x>> \o s
    ELSE <<Head(s)>> \o Insert(x, Tail(s))

RECURSIVE SortDescending(_, _)
SortDescending(acc, rows) ==
    IF rows = <<>> THEN acc
    ELSE SortDescending(Insert(Head(rows), acc), Tail(rows))

RECURSIVE Take(_, _)
Take(k, s) ==
    IF k = 0 \/ s = <<>> THEN <<>>
    ELSE IF Head(s).n <= k THEN <<Head(s)>> \o Take(k - Head(s).n, Tail(s))
    ELSE <<[Head(s) EXCEPT !.n = k]>>

\* nlargest replaced by head(k): the first k rows, unsorted.
head(k, rows) == Take(k, rows)

\* DataFrame.nlargest(k, 'mean_traffic'), keep='first': the k rows with the
\* largest values, rows with NaN taken last when the numbers run short.
nlargest(k, rows) == Take(k, SortDescending(<<>>, rows))

\* rename(columns={'mean_traff': 'mean_traffic'}), then simplify
RoadFeature(r) ==
    [mean_traffic |-> r.mean_traff, n |-> r.n, geometry |-> simplify(r.geometry, 1)]

\* nlargest raises TypeError for a column of dtype object
NumericColumn(rows) ==
    \A i \in 1..Len(rows) : rows[i].mean_traffic.kind # "str"

ConvertRoads(t) ==
    IF ~t.exists \/ ~({"mean_traff", "geometry"} \subseteq t.columns) THEN Raised
    ELSE LET roads_gdf == Map(RoadFeature, t.rows)
         IN  IF Count(roads_gdf) > RoadLimit
             THEN IF NumericColumn(roads_gdf)
                  THEN Wrote(GeoJsonFile(t.crs, t.frame, nlargest(RoadLimit, roads_gdf)))
                  ELSE Raised
             ELSE Wrote(GeoJsonFile(t.crs, t.frame, roads_gdf))

(***************************************************************************)
(* 7. DIVERSITY DATA.  Total_Estimate stands for the column                *)
(* 'Total:-Estimate'.                                                      *)
(***************************************************************************)
DiversityFeature(r) ==
    [Total_Estimate |-> r.Total_Estimate, geometry |-> simplify(r.geometry, 100)]

ConvertDiversity(t) ==
    IF ~t.exists \/ "geometry" \notin t.columns THEN Raised
    ELSE IF "Total_Estimate" \in t.columns
         THEN Wrote(GeoJsonFile(t.crs, t.frame, Map(DiversityFeature, t.rows)))
         ELSE Skipped

(***************************************************************************)
(* 8. SUITABILITY HEATMAP DATA: two notices are printed, nothing else.     *)
(***************************************************************************)
ConvertSuitability == Skipped

(***************************************************************************)
(* The driver.  A try block runs to its end or to its except clause; in    *)
(* both cases control passes to the statement after the try statement.     *)
(***************************************************************************)
Steps == 1..8

\* Attempt with no except clause: the exception leaves convert_all_layers.
AttemptUncaught(k, r) ==
    /\ pc = "run"
    /\ k \notin done
    /\ done' = done \cup {k}
    /\ errors' = IF r.raised THEN errors \cup {k} ELSE errors
    /\ pc' = IF r.raised THEN "aborted" ELSE pc
    /\ UNCHANGED <<inputs, before, output_data, run, configWrites>>

Attempt(k, r) ==
    /\ pc = "run"
    /\ k \notin done
    /\ done' = done \cup {k}
    /\ errors' = IF r.raised THEN errors \cup {k} ELSE errors
    /\ pc' = pc
    /\ UNCHANGED <<inputs, before, output_data, run, configWrites>>

StateBoundary ==
    LET r == ConvertBoundary(inputs.tracts)
    IN  /\ Attempt(1, r)
        /\ files' = IF r.written THEN [files EXCEPT !.nm_boundary = r.out] ELSE files

HighwayNetwork ==
    LET r == ConvertHighways(inputs.highways)
    IN  /\ Attempt(2, r)
        /\ files' = IF r.written THEN [files EXCEPT !.highways = r.out] ELSE files

\* FastFoodLocations opening its file to append (mode 'a').
FastFoodLocationsAppend ==
    LET r == ConvertFastFood(inputs.fast_food)
    IN  /\ Attempt(3, r)
        /\ files' = IF r.written
                    THEN [files EXCEPT !.fast_food_locations =
                            JsonFile(@.body \o r.out.body)]
                    ELSE files

FastFoodLocations ==
    LET r == ConvertFastFood(inputs.fast_food)
    IN  /\ Attempt(3, r)
        /\ files' = IF r.written THEN [files EXCEPT !.fast_food_locations = r.out]
                    ELSE files

\* PoiLocations written only when the fast-food step has not failed.
PoiLocationsAfterFastFood ==
    LET r == ConvertPois(inputs.pois)
    IN  /\ Attempt(4, r)
        /\ files' = IF r.written /\ 3 \in done /\ 3 \notin errors
                    THEN [files EXCEPT !.poi_locations = r.out] ELSE files

PoiLocations ==
    LET r == ConvertPois(inputs.pois)
    IN  /\ Attempt(4, r)
        /\ files' = IF r.written THEN [files EXCEPT !.poi_locations = r.out] ELSE files

TrafficStations ==
    LET r == ConvertStations(inputs.stations)
    IN  /\ Attempt(5, r)
        /\ files' = IF r.written THEN [files EXCEPT !.traffic_stations = r.out]
                    ELSE files

RoadTraffic ==
    LET r == ConvertRoads(inputs.roads)
    IN  /\ Attempt(6, r)
        /\ files' = IF r.written THEN [files EXCEPT !.road_traffic = r.out] ELSE files

DiversityData ==
    LET r == ConvertDiversity(inputs.diversity)
    IN  /\ Attempt(7, r)
        /\ files' = IF r.written THEN [files EXCEPT !.diversity_data = r.out] ELSE files

SuitabilityData ==
    /\ Attempt(8, ConvertSuitability)
    /\ files' = files

\* SaveConfiguration skipped when a step has failed.
SaveConfigurationIfClean ==
    /\ pc = "run"
    /\ done = Steps
    /\ files' = IF errors = {} THEN [files EXCEPT !.map_config = JsonFile(<<output_data>>)]
                ELSE files
    /\ configWrites' = IF errors = {} THEN configWrites + 1 ELSE configWrites
    /\ pc' = "finished"
    /\ UNCHANGED <<inputs, before, output_data, done, errors, run>>

\* "with open('map_config.json', 'w') as f: json.dump(output_data, f, indent=2)"
SaveConfiguration ==
    /\ pc = "run"
    /\ done = Steps
    /\ files' = [files EXCEPT !.map_config = JsonFile(<<output_data>>)]
    /\ configWrites' = configWrites + 1
    /\ pc' = "finished"
    /\ UNCHANGED <<inputs, before, output_data, done, errors, run>>

\* convert_all_layers() is called again, on the files the last run left.
RunAgain ==
    /\ pc = "finished"
    /\ run < MaxRuns
    /\ run' = run + 1
    /\ before' = files
    /\ output_data' = CONFIG
    /\ done' = {}
    /\ errors' = {}
    /\ configWrites' = 0
    /\ pc' = "run"
    /\ UNCHANGED <<inputs, files>>

\* The steps are statements in sequence: step k runs after steps 1..k-1.
InOrder(k) == done = 1..(k - 1)

Convert ==
    \/ InOrder(1) /\ StateBoundary
    \/ InOrder(2) /\ HighwayNetwork
    \/ InOrder(3) /\ FastFoodLocations
    \/ InOrder(4) /\ PoiLocations
    \/ InOrder(5) /\ TrafficStations
    \/ InOrder(6) /\ RoadTraffic
    \/ InOrder(7) /\ DiversityData
    \/ InOrder(8) /\ SuitabilityData
    \/ SaveConfiguration

Next == Convert \/ RunAgain

\* The same steps taken in any order, the configuration written last.
ConvertAnyOrder ==
    \/ StateBoundary
    \/ HighwayNetwork
    \/ FastFoodLocations
    \/ PoiLocations
    \/ TrafficStations
    \/ RoadTraffic
    \/ DiversityData
    \/ SuitabilityData
    \/ SaveConfiguration

(***************************************************************************)
(* Input files and prior output files the runs start from.                 *)
(***************************************************************************)
SeqsUpTo(S, n) == UNION {[1..k -> S] : k \in 0..n}

Point(x, y) == Geom("Point", x, y, x, y)
Polygon(cx, cy) == Geom("Polygon", 0, 0, cx, cy)
Line == Geom("LineString", 0, 0, 0, 0)

TractColumns == {"STATEFP", "GEOID", "geometry"}
TractRows == [STATEFP : {"35", "08"}, geometry : {{1}, {2}}]
TractSystems ==
    {<<"", "EPSG:4326">>, <<"", "EPSG:32613">>, <<"EPSG:4326", "EPSG:4326">>,
     <<"EPSG:4269", "EPSG:4269">>, <<"EPSG:32613", "EPSG:32613">>}
TractTables ==
    {Missing}
    \cup {GeoTable(c[1], c[2], cols, rows) :
            c \in TractSystems,
            cols \in {TractColumns, TractColumns \ {"STATEFP"}},
            rows \in SeqsUpTo(TractRows, MaxRows)}

HighwayRow == [id |-> IntV(7), geometry |-> Line]
HighwayTables ==
    {Missing,
     GeoTable("EPSG:4326", "EPSG:4326", {"geometry"}, <<HighwayRow>>),
     GeoTable("EPSG:4326", "EPSG:4326", {"id", "geometry"}, <<HighwayRow>>)}

FoodColumns == {"Name", "Address", "Latitude", "Longitude", "Rating"}
FoodRows ==
    [Name : {StrV("Taco Bell"), NaN},
     Latitude : {FloatV(351), NaN},
     Longitude : {FloatV(-1066)},
     Rating : {NaN, FloatV(0), FloatV(45)}]
FoodTables ==
    {Missing}
    \cup {Table(cols, rows) :
            cols \in {FoodColumns, FoodColumns \ {"Rating"}},
            rows \in SeqsUpTo(FoodRows, MaxRows)}

PoiColumns == {"name", "amenity", "geometry"}
PoiRows ==
    [name : {StrV("UNM"), None},
     geometry : {Point(1, 2), Polygon(3, 4), Line, NoGeom}]
PoiTables ==
    {Missing}
    \cup {GeoTable("EPSG:4326", "EPSG:4326", cols, rows) :
            cols \in {PoiColumns, PoiColumns \ {"name"}},
            rows \in SeqsUpTo(PoiRows, MaxRows)}

Station(lat, lon, count) ==
    [Loc_ID |-> StrV("S1"), Latitude |-> lat, Longitude |-> lon, TrafficCount |-> count]
StationRows ==
    {Station(FloatV(351), FloatV(-1066), c) :
        c \in {NaN, IntV(1200), FloatV(12005), FloatV(-25), StrV("12"), StrV("n/a")}}
    \cup {Station(NaN, FloatV(-1066), IntV(1200)),
          Station(FloatV(351), NaN, IntV(1200)),
          Station(NaN, NaN, NaN)}
StationTables ==
    {Missing}
    \cup {Table(1..w, rows) :
            w \in {Len(StationColumns) - 1, Len(StationColumns)},
            rows \in SeqsUpTo(StationRows, MaxRows)}

RoadColumns == {"mean_traff", "std_traff", "geometry"}
RoadRows ==
    [mean_traff : {NaN, FloatV(55), IntV(9), StrV("high")},
     n : {1, RoadLimit \div 2, RoadLimit - 1, RoadLimit},
     geometry : {Line}]
RoadTables ==
    {Missing}
    \cup {GeoTable("EPSG:4326", "EPSG:4326", cols, rows) :
            cols \in {RoadColumns, RoadColumns \ {"mean_traff"}},
            rows \in SeqsUpTo(RoadRows, MaxBlocks)}

DiversityRow == [Total_Estimate |-> IntV(4200), GEOID |-> StrV("35001"),
                 geometry |-> Polygon(5, 6)]
DiversityTables ==
    {Missing,
     GeoTable("EPSG:4326", "EPSG:4326", {"GEOID", "geometry"}, <<DiversityRow>>),
     GeoTable("EPSG:4326", "EPSG:4326", {"Total_Estimate", "GEOID", "geometry"},
              <<DiversityRow>>)}

\* One set of input files on which every step writes its file.
GoodInputs ==
    [tracts |-> GeoTable("EPSG:4269", "EPSG:4269", TractColumns,
                         <<[STATEFP |-> "35", geometry |-> {1}]>>),
     highways |-> GeoTable("EPSG:4326", "EPSG:4326", {"id", "geometry"}, <<HighwayRow>>),
     fast_food |-> Table(FoodColumns,
                         <<[Name |-> StrV("Taco Bell"), Latitude |-> FloatV(351),
                            Longitude |-> FloatV(-1066), Rating |-> FloatV(45)]>>),
     pois |-> GeoTable("EPSG:4326", "EPSG:4326", PoiColumns,
                       <<[name |-> StrV("UNM"), geometry |-> Polygon(3, 4)]>>),
     stations |-> Table(1..Len(StationColumns),
                        <<Station(FloatV(351), FloatV(-1066), FloatV(12005))>>),
     roads |-> GeoTable("EPSG:4326", "EPSG:4326", RoadColumns,
                        <<[mean_traff |-> FloatV(55), n |-> 1, geometry |-> Line]>>),
     diversity |-> GeoTable("EPSG:4326", "EPSG:4326",
                            {"Total_Estimate", "GEOID", "geometry"}, <<DiversityRow>>)]

\* Input files with a row that cannot be converted, or a column missing.
BadInputs ==
    [tracts |-> GeoTable("EPSG:4269", "EPSG:4269", {"geometry"},
                         <<[STATEFP |-> "35", geometry |-> {1}]>>),
     highways |-> GeoTable("EPSG:4326", "EPSG:4326", {"geometry"}, <<HighwayRow>>),
     fast_food |-> Table(FoodColumns \ {"Rating"}, <<>>),
     pois |-> GeoTable("EPSG:4326", "EPSG:4326", PoiColumns,
                       <<[name |-> StrV("UNM"), geometry |-> Point(1, 2)],
                         [name |-> None, geometry |-> NoGeom]>>),
     stations |-> Table(1..Len(StationColumns),
                        <<Station(FloatV(351), FloatV(-1066), IntV(1200)),
                          Station(FloatV(351), FloatV(-1066), StrV("n/a"))>>),
     roads |-> GeoTable("EPSG:4326", "EPSG:4326", RoadColumns,
                        <<[mean_traff |-> StrV("high"), n |-> RoadLimit, geometry |-> Line],
                          [mean_traff |-> StrV("high"), n |-> 1, geometry |-> Line]>>),
     diversity |-> GeoTable("EPSG:4326", "EPSG:4326", {"GEOID", "geometry"},
                            <<DiversityRow>>)]

Choices(f) == {Missing, BadInputs[f], GoodInputs[f]}

DriverInputs ==
    [tracts : Choices("tracts"), highways : Choices("highways"),
     fast_food : Choices("fast_food"), pois : Choices("pois"),
     stations : Choices("stations"), roads : Choices("roads"),
     diversity : Choices("diversity")]

\* Output files left by an earlier conversion of other data.
Stale ==
    [nm_boundary |-> GeoJsonFile("EPSG:4326", "EPSG:4326",
                                 <<[STATEFP |-> "35", geometry |-> {9}]>>),
     highways |-> GeoJsonFile("EPSG:4326", "EPSG:4326",
                              <<[id |-> IntV(0), geometry |-> Line]>>),
     fast_food_locations |->
        JsonFile(<<[lat |-> FloatV(0), lon |-> FloatV(0), name |-> StrV("old"),
                    rating |-> None],
                   [lat |-> FloatV(1), lon |-> FloatV(1), name |-> StrV("old"),
                    rating |-> None],
                   [lat |-> FloatV(2), lon |-> FloatV(2), name |-> StrV("old"),
                    rating |-> None],
                   [lat |-> FloatV(3), lon |-> FloatV(3), name |-> StrV("old"),
                    rating |-> None]>>),
     poi_locations |-> JsonFile(<<[lat |-> 0, lon |-> 0, name |-> StrV("old")]>>),
     traffic_stations |->
        JsonFile(<<[lat |-> FloatV(0), lon |-> FloatV(0), count |-> IntV(0),
                    loc_id |-> StrV("old")]>>),
     road_traffic |-> GeoJsonFile("EPSG:4326", "EPSG:4326",
                                  <<[mean_traffic |-> IntV(0), n |-> 1,
                                     geometry |-> Line]>>),
     diversity_data |-> GeoJsonFile("EPSG:4326", "EPSG:4326",
                                    <<[Total_Estimate |-> IntV(0),
                                       geometry |-> Polygon(0, 0)]>>),
     map_config |-> JsonFile(<<[CONFIG EXCEPT !.config.default_zoom = 5]>>)]

NoFiles == [f \in DOMAIN Stale |-> Absent]

SomeFiles ==
    [f \in DOMAIN Stale |->
        IF f \in {"highways", "poi_locations", "road_traffic", "map_config"}
        THEN Stale[f] ELSE Absent]

Priors == {NoFiles, Stale, SomeFiles}

\* The state when convert_all_layers() is entered and output_data is built.
InitOn(I) ==
    /\ inputs \in I
    /\ before \in Priors
    /\ files = before
    /\ output_data = CONFIG
    /\ done = {}
    /\ errors = {}
    /\ pc = "run"
    /\ run = 1
    /\ configWrites = 0

Init == InitOn(DriverInputs)

Spec == Init /\ [][Next]_vars

\* One run with the steps taken in every order, each step on an input it
\* converts and on one it does not.
OrderInputs ==
    [tracts : {Missing, GoodInputs.tracts},
     highways : {BadInputs.highways, GoodInputs.highways},
     fast_food : {Missing, GoodInputs.fast_food},
     pois : {BadInputs.pois, GoodInputs.pois},
     stations : {BadInputs.stations, GoodInputs.stations},
     roads : {BadInputs.roads, GoodInputs.roads},
     diversity : Choices("diversity")]

SpecAnyOrder == InitOn(OrderInputs) /\ [][ConvertAnyOrder]_vars

\* One run on every fast-food, POI or station table, the other files good.
PointInputs ==
    {[GoodInputs EXCEPT !.fast_food = t] : t \in FoodTables}
    \cup {[GoodInputs EXCEPT !.pois = t] : t \in PoiTables}
    \cup {[GoodInputs EXCEPT !.stations = t] : t \in StationTables}

SpecPoints == InitOn(PointInputs) /\ [][Convert]_vars

\* One run on every road-traffic table.
SpecRoads ==
    InitOn({[GoodInputs EXCEPT !.roads = t] : t \in RoadTables}) /\ [][Convert]_vars

\* One run on every tract table.
SpecBoundary ==
    InitOn({[GoodInputs EXCEPT !.tracts = t] : t \in TractTables}) /\ [][Convert]_vars

(***************************************************************************)
(* C1.  Whatever steps fail, the eight steps are attempted in the order 1  *)
(* to 8 and map_config.json is written after step 8: the steps done are    *)
(* always 1..n, a run that has not finished can take its next step, and a  *)
(* finished run has done all eight steps and written the configuration.    *)
(***************************************************************************)
C1_EveryStepAttempted ==
    /\ pc \in {"run", "finished"}
    /\ \E n \in 0..8 : done = 1..n
    /\ errors \subseteq done
    /\ pc = "run" => ENABLED Convert
    /\ pc = "finished" => done = 1..8 /\ configWrites = 1 /\ files.map_config.exists

\* Steps 1 to 7 all failed and the run finished.
C1_Witness == pc = "finished" /\ errors = 1..7 /\ run = 1

(***************************************************************************)
(* C2.  output_data never changes after it is built; map_config.json is    *)
(* written once per run, and it then holds the center, the zoom, the two   *)
(* distribution centers and the radius 300 * 1.609, whatever steps failed. *)
(***************************************************************************)
C2_ConfigWrittenOnceUnchanged ==
    LET c == output_data.config
    IN  /\ c.nm_center = <<"34.5199", "-105.8701">>
        /\ c.default_zoom = 6
        /\ Len(c.distribution_centers) = 2
        /\ c.distribution_centers[1] =
              [lat |-> "39.09820436455732", lon |-> "-104.78195183701729",
               name |-> "Denver DC"]
        /\ c.distribution_centers[2] =
              [lat |-> "33.54855180837709", lon |-> "-112.00158827551459",
               name |-> "Phoenix DC"]
        /\ c.dc_radius_km = 482700
        /\ pc = "run" => configWrites = 0
        /\ pc = "finished" =>
              /\ configWrites = 1
              /\ files.map_config.exists
              /\ files.map_config.body = <<output_data>>

\* A run with failed steps replaced an older map_config.json.
C2_Witness ==
    /\ pc = "finished"
    /\ errors = {1, 3, 5}
    /\ before.map_config.exists
    /\ files.map_config # before.map_config

(***************************************************************************)
(* C6.  A second run on unchanged input files leaves every output file as  *)
(* the first run left it.                                                  *)
(***************************************************************************)
C6_SecondRunSameFiles == run >= 2 /\ pc = "finished" => files = before

\* The second run finished, with steps that wrote and steps that failed.
C6_Witness ==
    /\ run = 2
    /\ pc = "finished"
    /\ errors = {2, 4}
    /\ files.fast_food_locations.exists
    /\ files.nm_boundary.exists

(***************************************************************************)
(* C7.  Each step's output file depends on that step's input file alone:   *)
(* in whatever order the steps are taken and whatever the other steps do,  *)
(* a file whose step has not run is as the run found it, and a file whose  *)
(* step has run holds that step's conversion of its own input if the step  *)
(* wrote, and is as the run found it if the step did not write.            *)
(***************************************************************************)
C7_StepsIndependent ==
    LET After(k, r, f) ==
            files[f] = IF k \in done /\ r.written THEN r.out ELSE before[f]
    IN  /\ After(1, ConvertBoundary(inputs.tracts), "nm_boundary")
        /\ After(2, ConvertHighways(inputs.highways), "highways")
        /\ After(3, ConvertFastFood(inputs.fast_food), "fast_food_locations")
        /\ After(4, ConvertPois(inputs.pois), "poi_locations")
        /\ After(5, ConvertStations(inputs.stations), "traffic_stations")
        /\ After(6, ConvertRoads(inputs.roads), "road_traffic")
        /\ After(7, ConvertDiversity(inputs.diversity), "diversity_data")
        /\ \A k \in Steps :
              k \in errors <=>
                 /\ k \in done
                 /\ \/ k = 1 /\ ConvertBoundary(inputs.tracts).raised
                    \/ k = 2 /\ ConvertHighways(inputs.highways).raised
                    \/ k = 3 /\ ConvertFastFood(inputs.fast_food).raised
                    \/ k = 4 /\ ConvertPois(inputs.pois).raised
                    \/ k = 5 /\ ConvertStations(inputs.stations).raised
                    \/ k = 6 /\ ConvertRoads(inputs.roads).raised
                    \/ k = 7 /\ ConvertDiversity(inputs.diversity).raised

\* Steps 7, 5 and 3 ran before the others; 5 failed, 3 and 7 wrote.
C7_Witness ==
    /\ done = {3, 5, 7}
    /\ errors = {5}
    /\ files.fast_food_locations # before.fast_food_locations
    /\ files.diversity_data # before.diversity_data
    /\ files.poi_locations = before.poi_locations

(***************************************************************************)
(* C10.  When the fast-food, POI or station step fails (reading its input, *)
(* selecting its columns or converting a row), its output file is left as  *)
(* the run found it: absent if absent, the old content if it existed.      *)
(***************************************************************************)
C10_FailedStepLeavesFile ==
    /\ 3 \in errors => files.fast_food_locations = before.fast_food_locations
    /\ 4 \in errors => files.poi_locations = before.poi_locations
    /\ 5 \in errors => files.traffic_stations = before.traffic_stations

\* The POI step failed on its second row, and the old poi_locations.json is
\* still there after the run.
C10_Witness ==
    /\ pc = "finished"
    /\ 4 \in errors
    /\ Len(inputs.pois.rows) = 2
    /\ inputs.pois.rows[1].geometry.type = "Point"
    /\ inputs.pois.rows[2].geometry.type = "None"
    /\ {"name", "geometry"} \subseteq inputs.pois.columns
    /\ files.poi_locations.exists
    /\ files.poi_locations = Stale.poi_locations

(***************************************************************************)
(* C5.  When the fast-food or the POI step writes its file, the file has   *)
(* as many records as the input has rows; when a row cannot be converted   *)
(* the step fails and writes no list at all.                               *)
(***************************************************************************)
C5_NoRowDropped ==
    /\ 3 \in done =>
          IF 3 \in errors
          THEN files.fast_food_locations = before.fast_food_locations
          ELSE /\ files.fast_food_locations.exists
               /\ Len(files.fast_food_locations.body) = Len(inputs.fast_food.rows)
    /\ 4 \in done =>
          IF 4 \in errors
          THEN files.poi_locations = before.poi_locations
          ELSE /\ files.poi_locations.exists
               /\ Len(files.poi_locations.body) = Len(inputs.pois.rows)
    /\ 4 \in done /\ (\E i \in 1..Len(inputs.pois.rows) :
                         inputs.pois.rows[i].geometry.type \in {"None", "LineString"})
          => 4 \in errors

\* The POI step wrote two records for a point and a polygon.
C5_Witness ==
    /\ 4 \in done
    /\ 4 \notin errors
    /\ Len(inputs.pois.rows) = 2
    /\ inputs.pois.rows[1].geometry.type = "Polygon"
    /\ inputs.pois.rows[2].geometry.type = "Point"
    /\ Len(files.poi_locations.body) = 2

(***************************************************************************)
(* C3.  When the station step writes traffic_stations.json, every record   *)
(* has a latitude and a longitude that are not null and an integer count,  *)
(* and the records are, in input order, one for each input row that has    *)
(* all three of latitude, longitude and count; rows missing one of them    *)
(* have no record.                                                         *)
(***************************************************************************)
C3_StationsComplete ==
    5 \in done /\ 5 \notin errors =>
        LET rows == inputs.stations.rows
            body == files.traffic_stations.body
            full == {i \in 1..Len(rows) :
                        /\ rows[i].Latitude.kind \notin {"nan", "none"}
                        /\ rows[i].Longitude.kind \notin {"nan", "none"}
                        /\ rows[i].TrafficCount.kind \notin {"nan", "none"}}
            nth(j) == CHOOSE i \in full : Cardinality({m \in full : m <= i}) = j
        IN  /\ files.traffic_stations.exists
            /\ Len(body) = Cardinality(full)
            /\ \A j \in 1..Len(body) :
                  /\ body[j].lat.kind \notin {"nan", "none"}
                  /\ body[j].lon.kind \notin {"nan", "none"}
                  /\ body[j].count.kind = "int"
                  /\ body[j].lat = rows[nth(j)].Latitude
                  /\ body[j].lon = rows[nth(j)].Longitude
                  /\ body[j].loc_id = rows[nth(j)].Loc_ID

\* The step wrote one record for two rows, the first of which has no count.
C3_Witness ==
    /\ 5 \in done
    /\ 5 \notin errors
    /\ Len(inputs.stations.rows) = 2
    /\ inputs.stations.rows[1].TrafficCount = NaN
    /\ inputs.stations.rows[2].TrafficCount = FloatV(12005)
    /\ Len(files.traffic_stations.body) = 1
    /\ files.traffic_stations.body[1].count = IntV(1200)

(***************************************************************************)
(* C9 as stated.  Every fast-food record holds the row's latitude,         *)
(* longitude and name; a null rating is absent from the record and any     *)
(* other rating is in the record.                                          *)
(***************************************************************************)
C9_NullRatingAbsent ==
    3 \in done /\ 3 \notin errors =>
        LET rows == inputs.fast_food.rows
            body == files.fast_food_locations.body
        IN  \A i \in 1..Len(rows) :
               /\ body[i].lat = rows[i].Latitude
               /\ body[i].lon = rows[i].Longitude
               /\ body[i].name = rows[i].Name
               /\ IF rows[i].Rating.kind = "nan"
                  THEN "rating" \notin DOMAIN body[i]
                  ELSE "rating" \in DOMAIN body[i] /\ body[i].rating = rows[i].Rating

(***************************************************************************)
(* C9 as amended.  Every fast-food record holds the row's latitude,        *)
(* longitude and name and always has a rating entry: None (JSON null) for  *)
(* a row whose rating is null, the row's rating otherwise.                 *)
(***************************************************************************)
C9_NullRatingIsNone ==
    3 \in done /\ 3 \notin errors =>
        LET rows == inputs.fast_food.rows
            body == files.fast_food_locations.body
        IN  /\ Len(body) = Len(rows)
            /\ \A i \in 1..Len(rows) :
                  /\ body[i].lat = rows[i].Latitude
                  /\ body[i].lon = rows[i].Longitude
                  /\ body[i].name = rows[i].Name
                  /\ "rating" \in DOMAIN body[i]
                  /\ body[i].rating =
                        IF rows[i].Rating.kind = "nan" THEN None ELSE rows[i].Rating

\* The step wrote a record for a row with no rating and one for a row rated 0.
C9_Witness ==
    /\ 3 \in done
    /\ 3 \notin errors
    /\ Len(inputs.fast_food.rows) = 2
    /\ inputs.fast_food.rows[1].Rating = NaN
    /\ inputs.fast_food.rows[2].Rating = FloatV(0)
    /\ files.fast_food_locations.body[1].rating = None
    /\ files.fast_food_locations.body[2].rating = FloatV(0)

\* The number of features with mean traffic v in the input, and in the output.
RECURSIVE FeaturesIn(_, _)
FeaturesIn(rows, v) ==
    IF rows = <<>> THEN 0
    ELSE (IF Head(rows).mean_traff = v THEN Head(rows).n ELSE 0)
         + FeaturesIn(Tail(rows), v)

RECURSIVE FeaturesOut(_, _)
FeaturesOut(body, v) ==
    IF body = <<>> THEN 0
    ELSE (IF Head(body).mean_traffic = v THEN Head(body).n ELSE 0)
         + FeaturesOut(Tail(body), v)

(***************************************************************************)
(* C4.  When the road-traffic step writes road_traffic.geojson for an      *)
(* input of N features: every written feature has the key mean_traffic and *)
(* not mean_traff; if N <= 10000 all N features are written; if N > 10000  *)
(* exactly 10000 of the input's features are written and no omitted        *)
(* feature has a higher mean traffic than a written one.                   *)
(***************************************************************************)
C4_TopRoadsKept ==
    6 \in done /\ 6 \notin errors =>
        LET rows == inputs.roads.rows
            body == files.road_traffic.body
            values == {rows[i].mean_traff : i \in 1..Len(rows)}
            numbers == {v \in values : v.kind \in {"int", "float"}}
            in(v) == FeaturesIn(rows, v)
            out(v) == FeaturesOut(body, v)
            total(f(_)) == LET sum[S \in SUBSET values] ==
                                   IF S = {} THEN 0
                                   ELSE LET v == CHOOSE x \in S : TRUE
                                        IN  f(v) + sum[S \ {v}]
                           IN  sum[values]
            N == total(in)
            more(v, w) == (IF v.kind = "int" THEN 10 * v.n ELSE v.n)
                          > (IF w.kind = "int" THEN 10 * w.n ELSE w.n)
        IN  /\ files.road_traffic.exists
            /\ \A i \in 1..Len(body) :
                  /\ "mean_traffic" \in DOMAIN body[i]
                  /\ "mean_traff" \notin DOMAIN body[i]
                  /\ body[i].mean_traffic \in values
                  /\ body[i].n > 0
            /\ \A v \in values : out(v) <= in(v)
            /\ N <= 10000 => total(out) = N
            /\ N > 10000 =>
                  /\ total(out) = 10000
                  /\ \A v, w \in numbers :
                        out(v) < in(v) /\ out(w) > 0 => ~more(v, w)

\* 10001 features, the last with the highest traffic: the step kept it and
\* 9999 of the others.
C4_Witness ==
    /\ 6 \in done
    /\ 6 \notin errors
    /\ Len(inputs.roads.rows) = 2
    /\ inputs.roads.rows[1].n = 10000
    /\ inputs.roads.rows[1].mean_traff = FloatV(55)
    /\ inputs.roads.rows[2].n = 1
    /\ inputs.roads.rows[2].mean_traff = IntV(9)
    /\ Len(files.road_traffic.body) = 2
    /\ files.road_traffic.body[1].mean_traffic = IntV(9)
    /\ files.road_traffic.body[2].n = 9999

(***************************************************************************)
(* C8 as stated.  When the boundary step writes nm_boundary.geojson, the   *)
(* file holds the merge of exactly the tracts with state code '35', and it *)
(* is in EPSG:4326 coordinates in every case.                              *)
(***************************************************************************)
C8_AlwaysGeographic ==
    1 \in done /\ 1 \notin errors =>
        LET rows == inputs.tracts.rows
            body == files.nm_boundary.body
        IN  /\ Len(body) <= 1
            /\ UNION {body[i].geometry : i \in 1..Len(body)}
                  = UNION {rows[i].geometry : i \in {j \in 1..Len(rows) :
                                                        rows[j].STATEFP = "35"}}
            /\ Len(body) = 1 => files.nm_boundary.frame = "EPSG:4326"

(***************************************************************************)
(* C8 as amended.  When the boundary step writes nm_boundary.geojson, the  *)
(* file holds the merge of exactly the tracts with state code '35'.  If    *)
(* the input declares a coordinate reference system the file is in         *)
(* EPSG:4326, reprojected when the declared system is another one; if the  *)
(* input declares none, the merged boundary is written without             *)
(* reprojection, in the input's coordinates and with no declared system.   *)
(***************************************************************************)
C8_GeographicWhenDeclared ==
    1 \in done /\ 1 \notin errors =>
        LET rows == inputs.tracts.rows
            body == files.nm_boundary.body
        IN  /\ Len(body) <= 1
            /\ UNION {body[i].geometry : i \in 1..Len(body)}
                  = UNION {rows[i].geometry : i \in {j \in 1..Len(rows) :
                                                        rows[j].STATEFP = "35"}}
            /\ inputs.tracts.crs # "" =>
                  /\ files.nm_boundary.crs = "EPSG:4326"
                  /\ files.nm_boundary.frame = "EPSG:4326"
            /\ inputs.tracts.crs = "" =>
                  /\ files.nm_boundary.crs = ""
                  /\ files.nm_boundary.frame = inputs.tracts.frame

\* A projected input with a New Mexico tract and a Colorado tract: the file
\* holds the New Mexico tract alone, reprojected.
C8_Witness ==
    /\ 1 \in done
    /\ 1 \notin errors
    /\ inputs.tracts.crs = "EPSG:32613"
    /\ Len(inputs.tracts.rows) = 2
    /\ inputs.tracts.rows[1] = [STATEFP |-> "08", geometry |-> {1}]
    /\ inputs.tracts.rows[2] = [STATEFP |-> "35", geometry |-> {2}]
    /\ files.nm_boundary.frame = "EPSG:4326"
    /\ files.nm_boundary.body = <<[STATEFP |-> "35", geometry |-> {2}]>>

====
